---------------------------- MODULE Spec2Model ----------------------------
(* A model of ttype's rendering core: Color (src/src/color.rs), ColoredText *)
(* (src/src/color.rs) and Pixels (src/src/pixels.rs).                       *)
(*                                                                          *)
(* Conventions.  A Rust Vec<T> or String is a TLA+ sequence; Rust indices   *)
(* are 0-based, so the element the code calls v[i] is v[i + 1] here.  A     *)
(* char is a one-character string.  A Color is the tuple <<r, g, b>> of its *)
(* three u8 channels.  A panic (failed unwrap, index out of range, usize    *)
(* underflow) ends the process: the model sets `failed` and stops.          *)
EXTENDS Integers, Sequences, FiniteSets, TLC

VARIABLES
    text,     \* a ColoredText: [chars, colors, underline, bold]
    pixels,   \* a Pixels: [size, chars, colors, escapes]
    args,     \* the inputs drawn for a pure function
    call,     \* the last operation called, with its arguments and pre-state
    result,   \* what the last operation returned or printed
    failed,   \* TRUE once an operation has panicked
    typed,      \* main's `typed`: the String typed so far, as its chars
    cursor_pos  \* main's `cursor_pos`: a char index into `typed`

vars == <<text, pixels, args, call, result, failed, typed, cursor_pos>>

\* String::new()
String_new == <<>>

-----------------------------------------------------------------------------
(* Bounds of the model.                                                     *)

MaxLen == 4
MaxWidth == 3
MaxStr == 2
MaxPalette == 3
MaxHexLen == 7
GridW == 3
GridH == 2
SrcW == 2
SrcH == 2
MaxText == 3

-----------------------------------------------------------------------------
(* Vec<T> helpers (std): insert and remove at a 0-based index.              *)

VecInsert(v, idx, x) == SubSeq(v, 1, idx) \o <<x>> \o SubSeq(v, idx + 1, Len(v))

VecRemove(v, idx) == SubSeq(v, 1, idx) \o SubSeq(v, idx + 2, Len(v))

VecPop(v) == SubSeq(v, 1, Len(v) - 1)

\* char::is_whitespace, on the characters the model uses.
is_whitespace(c) == c \in {" ", "\n", "\t"}

-----------------------------------------------------------------------------
(* Color.                                                                   *)

new_rgb(red, green, blue) == <<red, green, blue>>

White == new_rgb(255, 255, 255)

Red == new_rgb(255, 0, 0)

Black == new_rgb(0, 0, 0)

Blue == new_rgb(0, 0, 255)

TermColorSupport == {"TrueColor", "Ansi256", "Ansi16", "None"}

\* Option<T>
Some(v) == [some |-> TRUE, val |-> v]

None == [some |-> FALSE]

\* i32/usize Display: the decimal digits of n >= 0.
Digit(d) == <<"0", "1", "2", "3", "4", "5", "6", "7", "8", "9">>[d + 1]

RECURSIVE to_string(_)
to_string(n) ==
    IF n < 10 THEN <<Digit(n)>> ELSE Append(to_string(n \div 10), Digit(n % 10))

\* The first 16 entries of term_colors::TERM_COLORS, a file that is not among
\* the sources: the 16 standard terminal colors of the xterm palette.
TERM_COLORS_16 ==
    << <<0, 0, 0>>,       <<128, 0, 0>>,   <<0, 128, 0>>,   <<128, 128, 0>>,
       <<0, 0, 128>>,     <<128, 0, 128>>, <<0, 128, 128>>, <<192, 192, 192>>,
       <<128, 128, 128>>, <<255, 0, 0>>,   <<0, 255, 0>>,   <<255, 255, 0>>,
       <<0, 0, 255>>,     <<255, 0, 255>>, <<0, 255, 255>>, <<255, 255, 255>> >>

\* The rest of the 256-entry table: the 6x6x6 color cube and the gray ramp.
CubeLevel(k) == IF k = 0 THEN 0 ELSE 55 + 40 * k

TERM_COLORS ==
    [i \in 1 .. 256 |->
        IF i <= 16 THEN TERM_COLORS_16[i]
        ELSE IF i <= 232
        THEN LET n == i - 17
             IN  <<CubeLevel(n \div 36), CubeLevel((n \div 6) % 6), CubeLevel(n % 6)>>
        ELSE LET g == 8 + 10 * (i - 233) IN <<g, g, g>>]

\* The score of closest_color is the f32 square root of this sum.  The sum is
\* an integer below 2^24, so it is exact in f32, and the rounded square roots
\* of two different sums differ (they are more than 2^-10 apart, an ulp is
\* 2^-15 at most): comparing the scores is comparing the sums.
Score(c, self) ==
    (c[1] - self[1]) * (c[1] - self[1]) + (c[2] - self[2]) * (c[2] - self[2])
        + (c[3] - self[3]) * (c[3] - self[3])

\* std::f32::MAX, above every score.
ScoreMax == 3 * 255 * 255 + 1

\* The body of the loop of closest_color, on st = [best, best_score].
ClosestStep(self, colors, i, st) ==
    LET score == Score(colors[i + 1], self)
    IN  IF score < st.best_score THEN [best |-> i, best_score |-> score] ELSE st

\* The loop body for i = lo, lo + 1, ..., hi - 1, in that order.  The range is
\* halved, and the first half's result is read (best is never negative) before
\* the second half starts, to keep the evaluation shallow on the 256-entry
\* table.
RECURSIVE ClosestLoop(_, _, _, _, _)
ClosestLoop(self, colors, lo, hi, st) ==
    IF lo >= hi THEN st
    ELSE IF hi = lo + 1 THEN ClosestStep(self, colors, lo, st)
    ELSE LET mid == (lo + hi) \div 2
             left == ClosestLoop(self, colors, lo, mid, st)
         IN  IF left.best >= 0 THEN ClosestLoop(self, colors, mid, hi, left) ELSE left

\* closest_color: for i in 1..colors.len(), then (colors[best], best);
\* colors[0] panics on an empty slice, which no caller passes.
closest_color(self, colors) ==
    LET st == ClosestLoop(self, colors, 1, Len(colors), [best |-> 0, best_score |-> ScoreMax])
    IN  [color |-> colors[st.best + 1], index |-> st.best]

to_escape(self, term_color_support) ==
    CASE term_color_support = "TrueColor" ->
            Some(<<"ESC", "[", "3", "8", ";", "2", ";">> \o to_string(self[1])
                 \o <<";">> \o to_string(self[2])
                 \o <<";">> \o to_string(self[3]) \o <<"m">>)
      [] term_color_support = "Ansi256" ->
            LET c_index == closest_color(self, TERM_COLORS).index
            IN  Some(<<"ESC", "[", "3", "8", ";", "5", ";">> \o to_string(c_index)
                     \o <<"m">>)
      [] term_color_support = "Ansi16" ->
            LET c_index == closest_color(self, SubSeq(TERM_COLORS, 1, 16)).index
                prefix == IF c_index > 7 THEN 3 ELSE 9
            IN  Some(<<"ESC", "[">> \o to_string(prefix) \o to_string(c_index % 8)
                     \o <<"m">>)
      [] OTHER -> None

\* new_hex and to_hex.
RECURSIVE trim_start_matches(_, _)
trim_start_matches(s, pat) ==
    IF s # <<>> /\ Head(s) = pat THEN trim_start_matches(Tail(s), pat) ELSE s

HexDigits ==
    <<"0", "1", "2", "3", "4", "5", "6", "7", "8", "9", "a", "b", "c", "d", "e", "f">>

UpperHexDigits ==
    <<"0", "1", "2", "3", "4", "5", "6", "7", "8", "9", "A", "B", "C", "D", "E", "F">>

\* char::to_digit(16): Some(value) or None.
to_digit(c) ==
    IF \E d \in 1 .. 16 : HexDigits[d] = c \/ UpperHexDigits[d] = c
    THEN Some((CHOOSE d \in 1 .. 16 : HexDigits[d] = c \/ UpperHexDigits[d] = c) - 1)
    ELSE None

RECURSIVE DigitsValue(_, _)
DigitsValue(digits, acc) ==
    IF digits = <<>> THEN Some(acc)
    ELSE LET d == to_digit(Head(digits))
         IN  IF d.some THEN DigitsValue(Tail(digits), acc * 16 + d.val) ELSE None

\* u8::from_str_radix(src, 16): Ok(value) as Some, Err as None.  An empty
\* string, a lone sign and a non-digit are errors; a leading '+' is accepted
\* and a leading '-' is not a digit of an unsigned type; a value above 255
\* overflows.
from_str_radix(src) ==
    IF src = <<>> THEN None
    ELSE IF Head(src) \in {"+", "-"} /\ Len(src) = 1 THEN None
    ELSE LET digits == IF Head(src) = "+" THEN Tail(src) ELSE src
             v == DigitsValue(digits, 0)
         IN  IF v.some /\ v.val > 255 THEN None ELSE v

\* new_hex: Some(color), or None where the code panics: a slice past the end
\* of the trimmed string, or the unwrap of a parse error.
new_hex(hex) ==
    LET h == trim_start_matches(hex, "#")
    IN  IF Len(h) < 6 THEN None
        ELSE LET r == from_str_radix(SubSeq(h, 1, 2))
                 g == from_str_radix(SubSeq(h, 3, 4))
                 b == from_str_radix(SubSeq(h, 5, 6))
             IN  IF r.some /\ g.some /\ b.some
                 THEN Some(new_rgb(r.val, g.val, b.val))
                 ELSE None

\* {:02x}
LowerHex2(n) == <<HexDigits[(n \div 16) + 1], HexDigits[(n % 16) + 1]>>

to_hex(self) == <<"#">> \o LowerHex2(self[1]) \o LowerHex2(self[2]) \o LowerHex2(self[3])

-----------------------------------------------------------------------------
(* ColoredText: four parallel vectors.                                      *)

ColoredText_new ==
    [chars |-> <<>>, colors |-> <<>>, underline |-> <<>>, bold |-> <<>>]

push_NoBold(t, ch, color, u, b) ==
    [chars     |-> Append(t.chars, ch),
     colors    |-> Append(t.colors, color),
     underline |-> Append(t.underline, u),
     bold      |-> t.bold]

push(t, ch, color, u, b) ==
    [chars     |-> Append(t.chars, ch),
     colors    |-> Append(t.colors, color),
     underline |-> Append(t.underline, u),
     bold      |-> Append(t.bold, b)]

RECURSIVE push_str(_, _, _, _, _)
push_str(t, s, color, u, b) ==
    IF s = <<>> THEN t
    ELSE push_str([chars     |-> Append(t.chars, Head(s)),
                   colors    |-> Append(t.colors, color),
                   underline |-> Append(t.underline, u),
                   bold      |-> Append(t.bold, b)],
                  Tail(s), color, u, b)

new_text(s, color, u, b) == push_str(ColoredText_new, s, color, u, b)

len(t) == Len(t.chars)

\* Vec::insert panics when idx > len; the caller checks InsertPanics first.
InsertPanics(t, idx) == idx > Len(t.chars)

insert(t, idx, ch, color, u, b) ==
    [chars     |-> VecInsert(t.chars, idx, ch),
     colors    |-> VecInsert(t.colors, idx, color),
     underline |-> VecInsert(t.underline, idx, u),
     bold      |-> VecInsert(t.bold, idx, b)]

pop(t) ==
    IF len(t) > 0
    THEN [chars     |-> VecPop(t.chars),
          colors    |-> VecPop(t.colors),
          underline |-> VecPop(t.underline),
          bold      |-> VecPop(t.bold)]
    ELSE t

set_underline(t, idx) ==
    IF idx < Len(t.underline)
    THEN [t EXCEPT !.underline[idx + 1] = TRUE]
    ELSE t

(* word_wrap.  The loop state w holds new_chars, new_colors, new_underline, *)
(* new_bold, line_length, last_word_start, and failed (a panic inside the   *)
(* loop).                                                                    *)
WrapStart ==
    [chars |-> <<>>, colors |-> <<>>, underline |-> <<>>, bold |-> <<>>,
     line_length |-> 0, last_word_start |-> 0, failed |-> FALSE]

WrapPush(w, ch, color, u, b) ==
    [w EXCEPT !.chars     = Append(@, ch),
              !.colors    = Append(@, color),
              !.underline = Append(@, u),
              !.bold      = Append(@, b)]

WrapInsert(w, idx, ch, color, u, b) ==
    [w EXCEPT !.chars     = VecInsert(@, idx, ch),
              !.colors    = VecInsert(@, idx, color),
              !.underline = VecInsert(@, idx, u),
              !.bold      = VecInsert(@, idx, b)]

WrapRemove(w, idx) ==
    [w EXCEPT !.chars     = VecRemove(@, idx),
              !.colors    = VecRemove(@, idx),
              !.underline = VecRemove(@, idx),
              !.bold      = VecRemove(@, idx)]

\* The while loop: last_word_start - 1 on a usize underflows at 0, which
\* panics in a debug build and indexes out of range (a panic too) otherwise.
RECURSIVE WrapStrip(_)
WrapStrip(w) ==
    IF w.last_word_start = 0 THEN [w EXCEPT !.failed = TRUE]
    ELSE IF is_whitespace(w.chars[w.last_word_start])
    THEN WrapStrip([WrapRemove(w, w.last_word_start - 1)
                        EXCEPT !.last_word_start = @ - 1])
    ELSE w

\* The '\n' arm.
WrapNewline(w, color, u, b) ==
    [WrapPush(w, "\n", color, u, b) EXCEPT !.line_length = 0]

\* The ' ' arm.
WrapSpace(w, color, u, b) ==
    LET p == WrapPush(w, " ", color, u, b)
    IN  [p EXCEPT !.last_word_start = Len(p.chars), !.line_length = @ + 1]

\* The hard break before a character of a word at least `width` long.
WrapHardBreak(w, ch, color, u, b) ==
    LET n == WrapPush(w, "\n", White, FALSE, FALSE)
        m == [n EXCEPT !.last_word_start = Len(n.chars)]
    IN  [WrapPush(m, ch, color, u, b) EXCEPT !.line_length = 1]

\* The break at the last recorded word start.
WrapWordBreak(w, ch, color, u, b) ==
    LET s == WrapStrip(w)
    IN  IF s.failed THEN s
        ELSE LET n == [WrapInsert(s, s.last_word_start, "\n", White, FALSE, FALSE)
                           EXCEPT !.last_word_start = @ + 1]
                 p == WrapPush(n, ch, color, u, b)
             IN  [p EXCEPT !.line_length = Len(p.chars) - p.last_word_start]

\* The `_` arm.
WrapOther(w, ch, color, u, b, width) ==
    IF w.line_length + 1 > width
    THEN IF Len(w.chars) - w.last_word_start >= width
         THEN WrapHardBreak(w, ch, color, u, b)
         ELSE WrapWordBreak(w, ch, color, u, b)
    ELSE [WrapPush(w, ch, color, u, b) EXCEPT !.line_length = @ + 1]

WrapStep(w, ch, color, u, b, width) ==
    CASE ch = "\n" -> WrapNewline(w, color, u, b)
      [] ch = " "  -> WrapSpace(w, color, u, b)
      [] OTHER     -> WrapOther(w, ch, color, u, b, width)

\* for i in 0..chars.len()
RECURSIVE WrapLoop(_, _, _, _)
WrapLoop(t, w, i, width) ==
    IF w.failed \/ i >= Len(t.chars) THEN w
    ELSE WrapLoop(t,
                  WrapStep(w, t.chars[i + 1], t.colors[i + 1],
                           t.underline[i + 1], t.bold[i + 1], width),
                  i + 1, width)

\* word_wrap panics exactly when the loop does.
WordWrapPanics(t, width) == WrapLoop(t, WrapStart, 0, width).failed

word_wrap(t, width) ==
    LET w == WrapLoop(t, WrapStart, 0, width)
    IN  [chars |-> w.chars, colors |-> w.colors,
         underline |-> w.underline, bold |-> w.bold]

-----------------------------------------------------------------------------
(* Pixels: a grid of size <<width, height>> kept as three row-major vectors. *)

Cells(size) == 1 .. size[1] * size[2]

Pixels_new(size) ==
    [size    |-> size,
     chars   |-> [i \in Cells(size) |-> " "],
     colors  |-> [i \in Cells(size) |-> White],
     escapes |-> [i \in Cells(size) |-> <<>>]]

clear(p) ==
    [p EXCEPT !.chars   = [i \in Cells(p.size) |-> " "],
              !.colors  = [i \in Cells(p.size) |-> White],
              !.escapes = [i \in Cells(p.size) |-> <<>>]]

\* position.1 * self.size.0 + position.0, the 0-based index the setters use.
Offset(p, position) == position[2] * p.size[1] + position[1]

\* Indexing a vector at or past its length panics; nothing else is checked.
IndexPanics(p, position) == Offset(p, position) >= Len(p.chars)

set_char(p, position, character) ==
    [p EXCEPT !.chars[Offset(p, position) + 1] = character]

set_color(p, position, color) ==
    [p EXCEPT !.colors[Offset(p, position) + 1] = color]

set_escapes(p, position, escapes) ==
    [p EXCEPT !.escapes[Offset(p, position) + 1] = escapes]

add_escape(p, position, escape) ==
    [p EXCEPT !.escapes[Offset(p, position) + 1] = Append(@, escape)]

underline(p, position) == add_escape(p, position, 4)

bold(p, position) == add_escape(p, position, 1)

get_pixel(p, position) ==
    IF position[1] < p.size[1] /\ position[2] < p.size[2]
    THEN Some(<<p.chars[Offset(p, position) + 1], p.colors[Offset(p, position) + 1]>>)
    ELSE None

\* set_color on every cell, row by row: every color becomes `color`.
color_all(p, color) == [p EXCEPT !.colors = [i \in Cells(p.size) |-> color]]

\* ColoredText::split: `current` is pushed at each pattern_char and never
\* after the loop.
RECURSIVE SplitLoop(_, _, _, _, _)
SplitLoop(chars, pattern_char, i, res, current) ==
    IF i >= Len(chars) THEN res
    ELSE IF chars[i + 1] = pattern_char
    THEN SplitLoop(chars, pattern_char, i + 1, Append(res, current), <<>>)
    ELSE SplitLoop(chars, pattern_char, i + 1, res, Append(current, chars[i + 1]))

split(t, pattern_char) == SplitLoop(t.chars, pattern_char, 0, <<>>, <<>>)

\* iter().max_by_key(|s| s.len()).map_or(0, |s| s.len())
MaxLineLen(strings) ==
    IF strings = <<>> THEN 0
    ELSE CHOOSE n \in {Len(strings[k]) : k \in 1 .. Len(strings)} :
            \A k \in 1 .. Len(strings) : Len(strings[k]) <= n

\* The number of '\n' in the text.
NewlineCount(t) == Cardinality({i \in 1 .. Len(t.chars) : t.chars[i] = "\n"})

\* The initial `shift` of print_color.
PrintShift(t, hc) ==
    CASE hc = "Left"   -> 0
      [] hc = "Center" -> -(MaxLineLen(split(t, "\n")) \div 2)
      [] hc = "Right"  -> -MaxLineLen(split(t, "\n"))

\* The initial `y` of print_color.
PrintY(t, position, vc) ==
    CASE vc = "Top"    -> position[2]
      [] vc = "Middle" -> position[2] - (NewlineCount(t) \div 2)
      [] vc = "Bottom" -> position[2] - NewlineCount(t)

\* The cell writes of print_color for character i at (pos, y).
PrintCell(p, t, i, pos, y) ==
    LET c  == set_char(p, <<pos, y>>, t.chars[i + 1])
        k  == set_color(c, <<pos, y>>, t.colors[i + 1])
        u  == IF t.underline[i + 1] THEN underline(k, <<pos, y>>) ELSE k
    IN  IF t.bold[i + 1] THEN bold(u, <<pos, y>>) ELSE u

\* The body of the loop of print_color on st = [p, y, shift, current_line_len].
PrintStep_NoLineLen(t, position, i, st) ==
    IF t.chars[i + 1] = "\n"
    THEN [st EXCEPT !.y = @ + 1, !.shift = @ - st.current_line_len,
                    !.current_line_len = 0]
    ELSE LET pos == position[1] + st.shift + i
         IN  [st EXCEPT !.p = IF /\ pos >= 0 /\ pos < st.p.size[1]
                                 /\ st.y >= 0 /\ st.y < st.p.size[2]
                              THEN PrintCell(st.p, t, i, pos, st.y)
                              ELSE st.p,
                        !.current_line_len = @ + 1]

PrintStep(t, position, i, st) ==
    IF t.chars[i + 1] = "\n"
    THEN [st EXCEPT !.y = @ + 1, !.shift = @ - (st.current_line_len + 1),
                    !.current_line_len = 0]
    ELSE LET pos == position[1] + st.shift + i
         IN  [st EXCEPT !.p = IF /\ pos >= 0 /\ pos < st.p.size[1]
                                 /\ st.y >= 0 /\ st.y < st.p.size[2]
                              THEN PrintCell(st.p, t, i, pos, st.y)
                              ELSE st.p,
                        !.current_line_len = @ + 1]

\* for i in 0..text.len()
RECURSIVE PrintLoop(_, _, _, _)
PrintLoop(t, position, i, st) ==
    IF i >= len(t) THEN st
    ELSE PrintLoop(t, position, i + 1, PrintStep(t, position, i, st))

print_color(p, t, position, hc, vc) ==
    PrintLoop(t, position, 0,
              [p |-> p, y |-> PrintY(t, position, vc),
               shift |-> PrintShift(t, hc), current_line_len |-> 0]).p

\* The source cell (j, i) of comp and the destination cell it lands on.
CompCell(p, to_comp, origin, i, j) ==
    LET x == origin[1] + j
        y == origin[2] + i
        src == i * to_comp.size[1] + j
    IN  IF /\ x >= 0 /\ x < p.size[1] /\ y >= 0 /\ y < p.size[2]
           /\ to_comp.chars[src + 1] # " "
        THEN set_color(set_char(p, <<x, y>>, to_comp.chars[src + 1]),
                       <<x, y>>, to_comp.colors[src + 1])
        ELSE p

\* for i in 0..to_comp.size.1 { for j in 0..to_comp.size.0 }, as one loop over
\* n = i * to_comp.size.0 + j.
RECURSIVE CompLoop(_, _, _, _)
CompLoop(p, to_comp, origin, n) ==
    IF n >= to_comp.size[1] * to_comp.size[2] THEN p
    ELSE CompLoop(CompCell(p, to_comp, origin,
                           n \div to_comp.size[1], n % to_comp.size[1]),
                  to_comp, origin, n + 1)

\* i32 division truncates toward zero; the sizes are not negative.
CompOrigin_Corner(to_comp, position) == position

CompOrigin(to_comp, position) ==
    <<position[1] - (to_comp.size[1] \div 2), position[2] - (to_comp.size[2] \div 2)>>

comp(p, to_comp, position) ==
    CompLoop(p, to_comp, CompOrigin(to_comp, position), 0)

\* The escape codes of a cell: "\x1b[", each code and ';', the last ';'
\* popped, "m".
RECURSIVE EscapeCodes(_)
EscapeCodes(escapes) ==
    IF escapes = <<>> THEN <<>>
    ELSE to_string(Head(escapes)) \o <<";">> \o EscapeCodes(Tail(escapes))

RenderEscapes(escapes) ==
    IF Len(escapes) > 0
    THEN <<"ESC", "[">> \o VecPop(EscapeCodes(escapes)) \o <<"m">>
    ELSE <<>>

RenderCell_NoReset(p, n, term_color_support) ==
    LET e == to_escape(p.colors[n + 1], term_color_support)
    IN  RenderEscapes(p.escapes[n + 1])
            \o (IF e.some THEN e.val ELSE <<>>)
            \o <<p.chars[n + 1]>>

\* What render appends to `line` for the cell at 0-based index n.
RenderCell(p, n, term_color_support) ==
    LET e == to_escape(p.colors[n + 1], term_color_support)
    IN  RenderEscapes(p.escapes[n + 1])
            \o (IF e.some THEN e.val ELSE <<>>)
            \o <<p.chars[n + 1]>>
            \o <<"ESC", "[", "0", "m">>

RECURSIVE RenderLine(_, _, _, _)
RenderLine(p, i, j, term_color_support) ==
    IF j >= p.size[1] THEN <<>>
    ELSE RenderCell(p, i * p.size[1] + j, term_color_support)
            \o RenderLine(p, i, j + 1, term_color_support)

\* render: for each row i, the cursor move MoveTo(0, i) and the printed line.
render(p, term_color_support) ==
    [i \in 1 .. p.size[2] |->
        [move_to |-> <<0, i - 1>>, line |-> RenderLine(p, i - 1, 0, term_color_support)]]

-----------------------------------------------------------------------------
(* The inputs the model draws.                                              *)

Chars == {"a", " ", "\n"}

\* (color, underline, bold) of a pushed character.
Styles == {<<White, FALSE, FALSE>>, <<Red, TRUE, TRUE>>}

RECURSIVE StringsUpTo(_)
StringsUpTo(n) ==
    IF n = 0 THEN {<<>>}
    ELSE LET S == StringsUpTo(n - 1)
         IN  S \cup {Append(s, c) : s \in {x \in S : Len(x) = n - 1}, c \in Chars}

NoPixels == [size |-> <<0, 0>>, chars |-> <<>>, colors |-> <<>>, escapes |-> <<>>]

NoArgs == [f |-> "none"]

NoResult == [kind |-> "none"]

NoCall == [op |-> "none"]

RECURSIVE SeqsUpTo(_, _)
SeqsUpTo(S, n) ==
    IF n = 0 THEN {<<>>}
    ELSE LET P == SeqsUpTo(S, n - 1)
         IN  P \cup {Append(s, c) : s \in {x \in P : Len(x) = n - 1}, c \in S}

TestColors == {Black, White, Red, Blue}

\* A palette holds no color twice.
Palettes(n) ==
    {p \in SeqsUpTo(TestColors, n) :
        p # <<>> /\ \A i, j \in 1 .. Len(p) : i # j => p[i] # p[j]}

HexChars == {"#", "+", "a", "B", "g"}

GridSize == <<GridW, GridH>>

\* A grid on which every cell has been written: set_char 'x', color_all(Red)
\* and underline on each cell.
Filled(size) ==
    [size    |-> size,
     chars   |-> [i \in Cells(size) |-> "x"],
     colors  |-> [i \in Cells(size) |-> Red],
     escapes |-> [i \in Cells(size) |-> <<4>>]]

Grids == {Pixels_new(GridSize), Filled(GridSize)}

\* Positions on the grid and one column and one row past it.
Positions == (0 .. GridW) \X (0 .. GridH)

HCentering == {"Left", "Center", "Right"}

VCentering == {"Top", "Middle", "Bottom"}

\* The cells of a source grid of comp: a colored space and a letter.
SourceCells == {<<" ", Red>>, <<"a", Blue>>}

SourcesOf(size) ==
    {[size    |-> size,
      chars   |-> [i \in Cells(size) |-> f[i][1]],
      colors  |-> [i \in Cells(size) |-> f[i][2]],
      escapes |-> [i \in Cells(size) |-> <<>>]] : f \in [Cells(size) -> SourceCells]}

Sources == UNION {SourcesOf(<<w, h>>) : w \in 1 .. SrcW, h \in 1 .. SrcH}

\* The anchors of comp: i32 pairs on the grid and just off each side of it.
Anchors == (-1 .. GridW) \X (-1 .. GridH)

\* The glyphs of a drawn text: (char, color, underline, bold).
Glyphs == {<<"a", Red, FALSE, FALSE>>, <<"b", Blue, TRUE, TRUE>>,
           <<"\n", White, FALSE, FALSE>>}

RECURSIVE TextOf(_)
TextOf(glyphs) ==
    IF glyphs = <<>> THEN ColoredText_new
    ELSE LET g == glyphs[Len(glyphs)]
         IN  push(TextOf(VecPop(glyphs)), g[1], g[2], g[3], g[4])

DrawnTexts == {TextOf(g) : g \in SeqsUpTo(Glyphs, MaxText)}

RenderTiers == {"None", "TrueColor", "Ansi16"}

-----------------------------------------------------------------------------
(* Spec: a ColoredText under its operations.                                *)

Init ==
    /\ text \in {new_text(s, st[1], st[2], st[3]) :
                    s \in StringsUpTo(MaxStr), st \in Styles}
    /\ pixels = NoPixels
    /\ args = NoArgs
    /\ call = [op |-> "new_text"]
    /\ result = NoResult
    /\ failed = FALSE
    /\ typed = String_new
    /\ cursor_pos = 0

Push ==
    /\ ~failed
    /\ len(text) < MaxLen
    /\ \E ch \in Chars, st \in Styles :
          text' = push(text, ch, st[1], st[2], st[3])
    /\ call' = [op |-> "push"]
    /\ UNCHANGED <<typed, cursor_pos, pixels, args, result, failed>>

PushStr ==
    /\ ~failed
    /\ \E s \in StringsUpTo(MaxStr), st \in Styles :
          /\ len(text) + Len(s) <= MaxLen
          /\ text' = push_str(text, s, st[1], st[2], st[3])
    /\ call' = [op |-> "push_str"]
    /\ UNCHANGED <<typed, cursor_pos, pixels, args, result, failed>>

Insert ==
    /\ ~failed
    /\ len(text) < MaxLen
    /\ \E idx \in 0 .. len(text) + 1, ch \in Chars, st \in Styles :
          IF InsertPanics(text, idx)
          THEN failed' = TRUE /\ text' = text
          ELSE failed' = FALSE /\ text' = insert(text, idx, ch, st[1], st[2], st[3])
    /\ call' = [op |-> "insert"]
    /\ UNCHANGED <<typed, cursor_pos, pixels, args, result>>

Pop ==
    /\ ~failed
    /\ text' = pop(text)
    /\ call' = [op |-> "pop"]
    /\ UNCHANGED <<typed, cursor_pos, pixels, args, result, failed>>

WordWrap ==
    /\ ~failed
    /\ len(text) <= MaxLen
    /\ \E width \in 0 .. MaxWidth :
          /\ call' = [op |-> "word_wrap", width |-> width, pre |-> text]
          /\ IF WordWrapPanics(text, width)
             THEN failed' = TRUE /\ text' = text
             ELSE failed' = FALSE /\ text' = word_wrap(text, width)
    /\ UNCHANGED <<typed, cursor_pos, pixels, args, result>>

Next == Push \/ PushStr \/ Insert \/ Pop \/ WordWrap

Spec == Init /\ [][Next]_vars

-----------------------------------------------------------------------------
(* SpecColor: closest_color and to_escape on drawn colors and palettes.     *)

InitColor ==
    /\ args \in [self : TestColors,
                 colors : Palettes(MaxPalette)]
    /\ text = ColoredText_new
    /\ pixels = NoPixels
    /\ call = NoCall
    /\ result = NoResult
    /\ failed = FALSE
    /\ typed = String_new
    /\ cursor_pos = 0

ClosestColor ==
    /\ result' = closest_color(args.self, args.colors)
    /\ call' = [op |-> "closest_color"]
    /\ UNCHANGED <<typed, cursor_pos, text, pixels, args, failed>>

ToEscape ==
    /\ \E tier \in TermColorSupport :
          /\ result' = to_escape(args.self, tier)
          /\ call' = [op |-> "to_escape", tier |-> tier]
    /\ UNCHANGED <<typed, cursor_pos, text, pixels, args, failed>>

NextColor == ClosestColor \/ ToEscape

SpecColor == InitColor /\ [][NextColor]_vars

-----------------------------------------------------------------------------
(* SpecHex: new_hex on a drawn string, then to_hex on the color it made.    *)

InitHex ==
    /\ args \in [hex : SeqsUpTo(HexChars, MaxHexLen)]
    /\ text = ColoredText_new
    /\ pixels = NoPixels
    /\ call = NoCall
    /\ result = NoResult
    /\ failed = FALSE
    /\ typed = String_new
    /\ cursor_pos = 0

NewHex ==
    /\ call.op = "none"
    /\ call' = [op |-> "new_hex"]
    /\ LET c == new_hex(args.hex)
       IN  IF c.some
           THEN result' = [kind |-> "color", color |-> c.val] /\ failed' = FALSE
           ELSE result' = result /\ failed' = TRUE
    /\ UNCHANGED <<typed, cursor_pos, text, pixels, args>>

ToHex ==
    /\ call.op = "new_hex"
    /\ ~failed
    /\ call' = [op |-> "to_hex"]
    /\ result' = [kind |-> "hex", color |-> result.color, hex |-> to_hex(result.color)]
    /\ UNCHANGED <<typed, cursor_pos, text, pixels, args, failed>>

NextHex == NewHex \/ ToHex

SpecHex == InitHex /\ [][NextHex]_vars

-----------------------------------------------------------------------------
(* SpecPixels: one direct cell operation on a grid.                         *)

InitPixels ==
    /\ pixels \in Grids
    /\ text = ColoredText_new
    /\ args = NoArgs
    /\ call = NoCall
    /\ result = NoResult
    /\ failed = FALSE
    /\ typed = String_new
    /\ cursor_pos = 0

\* A setter called at `position`: the index panics or the write is made.
Setter(op, position, written) ==
    /\ call.op = "none"
    /\ call' = [op |-> op, position |-> position, pre |-> pixels]
    /\ IF IndexPanics(pixels, position)
       THEN failed' = TRUE /\ pixels' = pixels
       ELSE failed' = FALSE /\ pixels' = written
    /\ UNCHANGED <<typed, cursor_pos, text, args, result>>

SetChar ==
    \E position \in Positions, c \in {"a"} :
        Setter("set_char", position, set_char(pixels, position, c))

SetColor ==
    \E position \in Positions, c \in {Blue} :
        Setter("set_color", position, set_color(pixels, position, c))

SetEscapes ==
    \E position \in Positions, e \in {<<>>, <<1, 4>>} :
        Setter("set_escapes", position, set_escapes(pixels, position, e))

AddEscape ==
    \E position \in Positions, e \in {1, 4} :
        Setter("add_escape", position, add_escape(pixels, position, e))

Underline ==
    \E position \in Positions :
        Setter("underline", position, underline(pixels, position))

Bold ==
    \E position \in Positions :
        Setter("bold", position, bold(pixels, position))

Clear ==
    /\ call.op = "none"
    /\ call' = [op |-> "clear", pre |-> pixels]
    /\ pixels' = clear(pixels)
    /\ UNCHANGED <<typed, cursor_pos, text, args, result, failed>>

ColorAll ==
    /\ call.op = "none"
    /\ call' = [op |-> "color_all", pre |-> pixels]
    /\ \E c \in {Blue} : pixels' = color_all(pixels, c)
    /\ UNCHANGED <<typed, cursor_pos, text, args, result, failed>>

NextPixels ==
    \/ SetChar \/ SetColor \/ SetEscapes \/ AddEscape
    \/ Underline \/ Bold \/ Clear \/ ColorAll

SpecPixels == InitPixels /\ [][NextPixels]_vars

-----------------------------------------------------------------------------
(* SpecComp: one comp of a source grid onto a grid.                         *)

Comp ==
    /\ call.op = "none"
    /\ \E to_comp \in Sources, position \in Anchors :
          /\ call' = [op |-> "comp", to_comp |-> to_comp, position |-> position,
                      pre |-> pixels]
          /\ pixels' = comp(pixels, to_comp, position)
    /\ UNCHANGED <<typed, cursor_pos, text, args, result, failed>>

SpecComp == InitPixels /\ [][Comp]_vars

-----------------------------------------------------------------------------
(* SpecPrint: a styled text is drawn on a grid, and the grid is rendered.   *)

InitPrint ==
    /\ pixels \in Grids
    /\ text \in DrawnTexts
    /\ args = NoArgs
    /\ call = NoCall
    /\ result = NoResult
    /\ failed = FALSE
    /\ typed = String_new
    /\ cursor_pos = 0

PrintColor ==
    /\ call.op = "none"
    /\ \E position \in Positions, hc \in HCentering, vc \in VCentering :
          /\ call' = [op |-> "print_color", position |-> position, hc |-> hc,
                      vc |-> vc, shift |-> PrintShift(text, hc), pre |-> pixels]
          /\ pixels' = print_color(pixels, text, position, hc, vc)
    /\ UNCHANGED <<typed, cursor_pos, text, args, result, failed>>

Render ==
    /\ call.op = "print_color"
    /\ \E tier \in RenderTiers :
          /\ call' = [op |-> "render", tier |-> tier]
          /\ result' = render(pixels, tier)
    /\ UNCHANGED <<typed, cursor_pos, text, pixels, args, failed>>

NextPrint == PrintColor \/ Render

SpecPrint == InitPrint /\ [][NextPrint]_vars

-----------------------------------------------------------------------------
(* Claims about ColoredText, checked under Spec.                            *)

\* The lines of a character vector: the text between two consecutive
\* newlines, or between an end of the vector and the nearest newline.
RECURSIVE LinesFrom(_, _, _)
LinesFrom(chars, i, current) ==
    IF i > Len(chars) THEN <<current>>
    ELSE IF chars[i] = "\n" THEN <<current>> \o LinesFrom(chars, i + 1, <<>>)
    ELSE LinesFrom(chars, i + 1, Append(current, chars[i]))

Lines(chars) == LinesFrom(chars, 1, <<>>)

\* C1: after any sequence of push, push_str, insert, pop and word_wrap calls
\* on an empty or new_text-constructed buffer, chars, colors, underline and
\* bold all have the same length.
C1_ParallelLengths ==
    /\ Len(text.colors) = Len(text.chars)
    /\ Len(text.underline) = Len(text.chars)
    /\ Len(text.bold) = Len(text.chars)

\* C1's case: a word_wrap that inserted a line break into a buffer built by
\* the other operations.
C1_Witness ==
    /\ call.op = "word_wrap"
    /\ ~failed
    /\ Len(call.pre.chars) >= 2
    /\ Len(text.chars) > Len(call.pre.chars)

\* C2: after word_wrap(width), for a width of at least 1, no line of the
\* buffer is longer than width characters (a word longer than width being
\* hard-broken into pieces of width characters).
C2_WrappedLinesFit ==
    (call.op = "word_wrap" /\ ~failed /\ call.width >= 1) =>
        \A k \in 1 .. Len(Lines(text.chars)) :
            Len(Lines(text.chars)[k]) <= call.width

\* The glyph at 1-based index i: (char, color, underline, bold).
GlyphAt(t, i) == <<t.chars[i], t.colors[i], t.underline[i], t.bold[i]>>

\* The glyphs of a buffer that are not spaces (newlines and word characters),
\* in order.
RECURSIVE NonSpaceGlyphs(_, _)
NonSpaceGlyphs(t, i) ==
    IF i > Len(t.chars) THEN <<>>
    ELSE IF t.chars[i] = " " THEN NonSpaceGlyphs(t, i + 1)
    ELSE <<GlyphAt(t, i)>> \o NonSpaceGlyphs(t, i + 1)

\* a is b with some elements left out.
RECURSIVE IsSubsequence(_, _)
IsSubsequence(a, b) ==
    IF a = <<>> THEN TRUE
    ELSE IF b = <<>> THEN FALSE
    ELSE IF Head(a) = Head(b) THEN IsSubsequence(Tail(a), Tail(b))
    ELSE IsSubsequence(a, Tail(b))

\* C11: word_wrap keeps every newline already in the buffer, with its color
\* and style flags and in its place among the non-whitespace characters: the
\* newlines and word characters of the buffer before the call are, glyph for
\* glyph and in order, among those of the buffer after it.
C11_NewlinesPreserved ==
    (call.op = "word_wrap" /\ ~failed) =>
        IsSubsequence(NonSpaceGlyphs(call.pre, 1), NonSpaceGlyphs(text, 1))

\* C13: word_wrap(width) completes without failure for every buffer and every
\* width >= 0.
C13_WordWrapCompletes ==
    call.op = "word_wrap" => ~failed

-----------------------------------------------------------------------------
(* Claims about Color, checked under SpecColor and SpecHex.                 *)

\* C4: on a non-empty palette closest_color returns the index of an entry at
\* minimal distance to the target, and the smallest such index.
C4_ClosestIsFirstNearest ==
    call.op = "closest_color" =>
        /\ result.index \in 0 .. Len(args.colors) - 1
        /\ result.color = args.colors[result.index + 1]
        /\ \A j \in 0 .. Len(args.colors) - 1 :
              /\ Score(args.colors[result.index + 1], args.self)
                    <= Score(args.colors[j + 1], args.self)
              /\ j < result.index =>
                    Score(args.colors[result.index + 1], args.self)
                        < Score(args.colors[j + 1], args.self)

\* C5: for tier Ansi16, to_escape encodes the chosen palette index n as
\* ESC[3Xm when n is in 0..7 and as ESC[9Xm when n is in 8..15, X = n mod 8.
C5_Ansi16Prefix ==
    (call.op = "to_escape" /\ call.tier = "Ansi16") =>
        LET n == closest_color(args.self, SubSeq(TERM_COLORS, 1, 16)).index
        IN  result = Some(<<"ESC", "[", IF n <= 7 THEN "3" ELSE "9">>
                          \o to_string(n % 8) \o <<"m">>)

IsHexDigit(c) ==
    c \in {"0", "1", "2", "3", "4", "5", "6", "7", "8", "9",
           "a", "b", "c", "d", "e", "f", "A", "B", "C", "D", "E", "F"}

\* An optional single leading '#', then exactly 6 hexadecimal digits.
WellFormedHex(s) ==
    LET d == IF s # <<>> /\ Head(s) = "#" THEN Tail(s) ELSE s
    IN  Len(d) = 6 /\ \A i \in 1 .. 6 : IsHexDigit(d[i])

LowerCased(c) ==
    CASE c = "A" -> "a" [] c = "B" -> "b" [] c = "C" -> "c"
      [] c = "D" -> "d" [] c = "E" -> "e" [] c = "F" -> "f" [] OTHER -> c

\* s lower-cased, with a leading '#'.
Normalized(s) ==
    LET d == IF s # <<>> /\ Head(s) = "#" THEN Tail(s) ELSE s
    IN  <<"#">> \o [i \in 1 .. Len(d) |-> LowerCased(d[i])]

\* C10: new_hex succeeds exactly on an optional single '#' followed by exactly
\* 6 hexadecimal digits, and then to_hex gives the input lower-cased with a
\* leading '#'.
C10_NewHexExact ==
    /\ call.op = "new_hex" => (~failed <=> WellFormedHex(args.hex))
    /\ call.op = "to_hex" => result.hex = Normalized(args.hex)

-----------------------------------------------------------------------------
(* Claims about Pixels, checked under SpecPixels, SpecComp and SpecPrint.   *)

\* The 1-based index of cell (x, y) of a grid of the given size.
CellAt(size, x, y) == y * size[1] + x + 1

OutOfBounds(size, position) ==
    position[1] >= size[1] \/ position[2] >= size[2]

\* C3: set_char, set_color, set_escapes, add_escape, underline and bold at a
\* coordinate outside the grid do not fail and leave every cell unchanged.
C3_OutOfBoundsRejected ==
    (/\ call.op \in {"set_char", "set_color", "set_escapes", "add_escape",
                     "underline", "bold"}
     /\ OutOfBounds(call.pre.size, call.position))
        => (~failed /\ pixels = call.pre)

\* C6: after comp(other, anchor), a destination cell under a source cell
\* (the source placed with its centre, half its size, at the anchor) keeps its
\* character and color when the source character is a space and takes the
\* source's otherwise; a destination cell under no source cell is unchanged.
C6_CompOverlay ==
    call.op = "comp" =>
        LET src == call.to_comp
            ox  == call.position[1] - (src.size[1] \div 2)
            oy  == call.position[2] - (src.size[2] \div 2)
        IN  /\ pixels.size = call.pre.size
            /\ \A x \in 0 .. pixels.size[1] - 1, y \in 0 .. pixels.size[2] - 1 :
                  LET d == CellAt(pixels.size, x, y)
                      j == x - ox
                      i == y - oy
                  IN  IF j \in 0 .. src.size[1] - 1 /\ i \in 0 .. src.size[2] - 1
                      THEN LET c == CellAt(src.size, j, i)
                           IN  IF src.chars[c] = " "
                               THEN /\ pixels.chars[d] = call.pre.chars[d]
                                    /\ pixels.colors[d] = call.pre.colors[d]
                               ELSE /\ pixels.chars[d] = src.chars[c]
                                    /\ pixels.colors[d] = src.colors[c]
                      ELSE /\ pixels.chars[d] = call.pre.chars[d]
                           /\ pixels.colors[d] = call.pre.colors[d]
                           /\ pixels.escapes[d] = call.pre.escapes[d]

\* C6's case: a 2x2 source with a space and a letter, partly off a written
\* grid: one cell overwritten, one kept under the space.
C6_Witness ==
    /\ call.op = "comp"
    /\ call.to_comp.size = <<2, 2>>
    /\ call.position = <<0, 1>>
    /\ call.pre = Filled(GridSize)
    /\ call.to_comp.chars = <<" ", "a", "a", " ">>
    /\ pixels.chars[CellAt(GridSize, 0, 0)] = "a"
    /\ pixels.chars[CellAt(GridSize, 0, 1)] = "x"
    /\ pixels.colors[CellAt(GridSize, 0, 0)] = Blue

\* The 0-based index in the text of the first character of line k (0-based).
RECURSIVE LineStart(_, _)
LineStart(lines, k) ==
    IF k = 0 THEN 0 ELSE LineStart(lines, k - 1) + Len(lines[k]) + 1

\* C7: print_color with Left and Top at (ax, ay) writes character j of line k
\* of the text, with its color, to cell (ax + j, ay + k) when that cell is on
\* the grid, writes no newline to any cell, and leaves every other cell
\* unchanged.
C7_PrintLeftTop ==
    (call.op = "print_color" /\ call.hc = "Left" /\ call.vc = "Top") =>
        LET lines == Lines(text.chars)
            ax    == call.position[1]
            ay    == call.position[2]
        IN  \A x \in 0 .. pixels.size[1] - 1, y \in 0 .. pixels.size[2] - 1 :
               LET d == CellAt(pixels.size, x, y)
                   j == x - ax
                   k == y - ay
               IN  /\ pixels.chars[d] # "\n"
                   /\ IF k \in 0 .. Len(lines) - 1 /\ j \in 0 .. Len(lines[k + 1]) - 1
                      THEN /\ pixels.chars[d] = lines[k + 1][j + 1]
                           /\ pixels.colors[d] = text.colors[LineStart(lines, k) + j + 1]
                      ELSE /\ pixels.chars[d] = call.pre.chars[d]
                           /\ pixels.colors[d] = call.pre.colors[d]
                           /\ pixels.escapes[d] = call.pre.escapes[d]

\* C7's case: a two-line text drawn Left/Top off the origin of a written grid,
\* its second line running past the right edge.
C7_Witness ==
    /\ call.op = "print_color" /\ call.hc = "Left" /\ call.vc = "Top"
    /\ call.position = <<GridW - 1, 0>>
    /\ call.pre = Filled(GridSize)
    /\ text.chars = <<"a", "\n", "b">>
    /\ pixels.chars[CellAt(GridSize, GridW - 1, 0)] = "a"
    /\ pixels.chars[CellAt(GridSize, GridW - 1, 1)] = "b"
    /\ pixels.chars[CellAt(GridSize, 0, 1)] = "x"

\* The length of the longest line of the text, the last line included.
LongestLine(chars) ==
    CHOOSE n \in {Len(Lines(chars)[k]) : k \in 1 .. Len(Lines(chars))} :
        \A k \in 1 .. Len(Lines(chars)) : Len(Lines(chars)[k]) <= n

\* C8: the horizontal shift of print_color is 0 for Left, -(L/2) for Center
\* and -L for Right, L the length of the longest of all lines of the text.
C8_ShiftFromLongestLine ==
    call.op = "print_color" =>
        call.shift = (CASE call.hc = "Left"   -> 0
                        [] call.hc = "Center" -> -(LongestLine(text.chars) \div 2)
                        [] call.hc = "Right"  -> -LongestLine(text.chars))

\* The characters of row i (0-based) of a grid.
RowChars(p, i) == [j \in 1 .. p.size[1] |-> p.chars[i * p.size[1] + j]]

\* C9 as stated: rendering with tier None emits, for each row, exactly the
\* row's characters and no escape bytes.
C9_NoEscapeBytes ==
    (call.op = "render" /\ call.tier = "None") =>
        \A i \in 1 .. pixels.size[2] : result[i].line = RowChars(pixels, i - 1)

\* A line with its escape sequences (ESC up to the next 'm') removed.
RECURSIVE StripEscapes(_, _)
StripEscapes(line, inside) ==
    IF line = <<>> THEN <<>>
    ELSE IF inside
    THEN StripEscapes(Tail(line), Head(line) # "m")
    ELSE IF Head(line) = "ESC" THEN StripEscapes(Tail(line), TRUE)
    ELSE <<Head(line)>> \o StripEscapes(Tail(line), FALSE)

\* The escape sequences of a line, in order.
RECURSIVE EscapesOf(_, _, _)
EscapesOf(line, inside, current) ==
    IF line = <<>> THEN <<>>
    ELSE IF inside
    THEN IF Head(line) = "m"
         THEN <<Append(current, "m")>> \o EscapesOf(Tail(line), FALSE, <<>>)
         ELSE EscapesOf(Tail(line), TRUE, Append(current, Head(line)))
    ELSE IF Head(line) = "ESC" THEN EscapesOf(Tail(line), TRUE, <<"ESC">>)
    ELSE EscapesOf(Tail(line), FALSE, <<>>)

\* ESC[c1;c2;...m for a non-empty list of codes.
RECURSIVE Joined(_)
Joined(codes) ==
    IF Len(codes) = 1 THEN to_string(codes[1])
    ELSE to_string(codes[1]) \o <<";">> \o Joined(Tail(codes))

Sgr(codes) == <<"ESC", "[">> \o Joined(codes) \o <<"m">>

\* The escape sequences of row i with tier None: per cell, the cell's style
\* sequence when it has codes, then the reset.
RECURSIVE RowEscapes(_, _, _)
RowEscapes(p, i, j) ==
    IF j >= p.size[1] THEN <<>>
    ELSE LET e == p.escapes[i * p.size[1] + j + 1]
         IN  (IF e = <<>> THEN <<>> ELSE <<Sgr(e)>>) \o <<Sgr(<<0>>)>>
                \o RowEscapes(p, i, j + 1)

\* "ab", a plain and b bold, drawn Left/Top at (2, 1) on a 5x3 grid.
ExampleGrid ==
    print_color(Pixels_new(<<5, 3>>),
                push(push(ColoredText_new, "a", Red, FALSE, FALSE),
                     "b", Blue, FALSE, TRUE),
                <<2, 1>>, "Left", "Top")

\* C9 as amended: rendering with tier None emits no color escape; each row's
\* line is, cell by cell, the cell's style sequence (when it has codes), its
\* character and a reset, so that with the escape sequences removed it is
\* exactly the row's characters.
C9_NoColorEscape ==
    /\ (call.op = "render" /\ call.tier = "None") =>
          \A i \in 1 .. pixels.size[2] :
              /\ result[i].move_to = <<0, i - 1>>
              /\ StripEscapes(result[i].line, FALSE) = RowChars(pixels, i - 1)
              /\ EscapesOf(result[i].line, FALSE, <<>>) = RowEscapes(pixels, i - 1, 0)
    /\ call.op = "render" =>
          render(ExampleGrid, "None")[2].line =
              <<" ", "ESC", "[", "0", "m", " ", "ESC", "[", "0", "m",
                "a", "ESC", "[", "0", "m",
                "ESC", "[", "1", "m", "b", "ESC", "[", "0", "m",
                " ", "ESC", "[", "0", "m">>

\* C9's case: a grid on which a bold and underlined character was drawn,
\* rendered with tier None.
C9_Witness ==
    /\ call.op = "render" /\ call.tier = "None"
    /\ \E d \in Cells(pixels.size) :
          pixels.chars[d] = "b" /\ pixels.escapes[d] = <<4, 1>>
    /\ \E d \in Cells(pixels.size) : pixels.escapes[d] = <<>>

-----------------------------------------------------------------------------
(* SpecSplit: one split of a styled text.                                   *)

InitSplit ==
    /\ text \in {new_text(s, White, FALSE, FALSE) : s \in StringsUpTo(MaxLen)}
    /\ pixels = NoPixels
    /\ args = NoArgs
    /\ call = NoCall
    /\ result = NoResult
    /\ failed = FALSE
    /\ typed = String_new
    /\ cursor_pos = 0

Split ==
    /\ call.op = "none"
    /\ \E pattern_char \in Chars :
          /\ call' = [op |-> "split", pattern_char |-> pattern_char]
          /\ result' = [kind |-> "strings",
                        strings |-> split(text, pattern_char)]
    /\ UNCHANGED <<typed, cursor_pos, text, pixels, args, failed>>

SpecSplit == InitSplit /\ [][Split]_vars

\* The strings joined with c between them.
RECURSIVE JoinWith(_, _)
JoinWith(strings, c) ==
    IF strings = <<>> THEN <<>>
    ELSE IF Len(strings) = 1 THEN strings[1]
    ELSE strings[1] \o <<c>> \o JoinWith(Tail(strings), c)

\* How many times c occurs in chars.
Occurrences(chars, c) == Cardinality({i \in 1 .. Len(chars) : chars[i] = c})

\* C12: split(c) of a buffer with k occurrences of c returns k + 1 strings,
\* and joining them with c reproduces the buffer's text.
C12_SplitJoins ==
    call.op = "split" =>
        /\ Len(result.strings) = Occurrences(text.chars, call.pattern_char) + 1
        /\ JoinWith(result.strings, call.pattern_char) = text.chars

-----------------------------------------------------------------------------
(* SpecKeys: the key events of the game loop, processed one after another.  *)
(* `typed` is a String, held as the sequence of its chars; String::remove   *)
(* and String::insert take a byte offset, which nth_char_idx computes from  *)
(* a char index.  Ctrl-r and Ctrl-c leave the loop and edit nothing.        *)

MaxTyped == 3

\* The chars a KeyCode::Char event carries here; 'é' takes two bytes.
KeyChars == {"a", " ", "é"}

\* char::len_utf8
len_utf8(c) == IF c = "é" THEN 2 ELSE 1

\* str::len: the length in bytes.
RECURSIVE ByteLen(_)
ByteLen(s) == IF s = <<>> THEN 0 ELSE len_utf8(Head(s)) + ByteLen(Tail(s))

\* str::char_indices: each char with the byte offset at which it starts.
char_indices(s) ==
    [k \in 1 .. Len(s) |-> <<ByteLen(SubSeq(s, 1, k - 1)), s[k]>>]

\* .nth(idx).expect("Invalid cursor position"): None when idx is not the
\* index of a char.
NthCharIdxPanics(s, idx) == idx >= Len(s)

nth_char_idx(s, idx) == char_indices(s)[idx + 1][1]

\* str::is_char_boundary
is_char_boundary(s, idx) ==
    idx = ByteLen(s) \/ \E k \in 1 .. Len(s) : char_indices(s)[k][1] = idx

\* String::remove(idx) panics when idx is not the start of a char.
StringRemovePanics(s, idx) == idx >= ByteLen(s) \/ ~is_char_boundary(s, idx)

String_remove(s, idx) ==
    LET k == CHOOSE k \in 1 .. Len(s) : char_indices(s)[k][1] = idx
    IN  SubSeq(s, 1, k - 1) \o SubSeq(s, k + 1, Len(s))

\* String::insert(idx, ch) panics when idx is not a char boundary.
StringInsertPanics(s, idx) == ~is_char_boundary(s, idx)

String_insert(s, idx, ch) ==
    LET k == Cardinality({j \in 1 .. Len(s) : char_indices(s)[j][1] < idx})
    IN  SubSeq(s, 1, k) \o <<ch>> \o SubSeq(s, k + 1, Len(s))

\* String::push
String_push(s, ch) == Append(s, ch)

InitKeys ==
    /\ typed = String_new
    /\ cursor_pos = 0
    /\ text = ColoredText_new
    /\ pixels = NoPixels
    /\ args = NoArgs
    /\ call = NoCall
    /\ result = NoResult
    /\ failed = FALSE

\* A handler that panics leaves typed and cursor_pos as they were.
KeyPanic == failed' = TRUE /\ UNCHANGED <<typed, cursor_pos>>

Backspace ==
    /\ ~failed
    /\ call' = [op |-> "Backspace"]
    /\ IF cursor_pos > 0
       THEN IF \/ NthCharIdxPanics(typed, cursor_pos - 1)
               \/ StringRemovePanics(typed, nth_char_idx(typed, cursor_pos - 1))
            THEN KeyPanic
            ELSE /\ typed' = String_remove(typed,
                                           nth_char_idx(typed, cursor_pos - 1))
                 /\ cursor_pos' = cursor_pos - 1
                 /\ failed' = FALSE
       ELSE UNCHANGED <<typed, cursor_pos, failed>>
    /\ UNCHANGED <<text, pixels, args, result>>

Delete ==
    /\ ~failed
    /\ call' = [op |-> "Delete"]
    /\ IF cursor_pos < Len(typed)
       THEN IF \/ NthCharIdxPanics(typed, cursor_pos)
               \/ StringRemovePanics(typed, nth_char_idx(typed, cursor_pos))
            THEN KeyPanic
            ELSE /\ typed' = String_remove(typed,
                                           nth_char_idx(typed, cursor_pos))
                 /\ UNCHANGED <<cursor_pos, failed>>
       ELSE UNCHANGED <<typed, cursor_pos, failed>>
    /\ UNCHANGED <<text, pixels, args, result>>

Left ==
    /\ ~failed
    /\ call' = [op |-> "Left"]
    /\ cursor_pos' = IF cursor_pos > 0 THEN cursor_pos - 1 ELSE cursor_pos
    /\ UNCHANGED <<typed, failed, text, pixels, args, result>>

Right ==
    /\ ~failed
    /\ call' = [op |-> "Right"]
    /\ cursor_pos' = IF cursor_pos < Len(typed) THEN cursor_pos + 1
                     ELSE cursor_pos
    /\ UNCHANGED <<typed, failed, text, pixels, args, result>>

\* chars.last().unwrap_or(&' ')
LastOr(chars, default) ==
    IF chars = <<>> THEN default ELSE chars[Len(chars)]

\* The third operand of the condition is reached for a space typed before
\* the end; it reads chars[cursor_pos - 1], and cursor_pos - 1 underflows
\* usize when cursor_pos is 0 (a panic, or after wrapping an index out of
\* range).
CharPanics(c, chars, pos) ==
    /\ c = " "
    /\ ~(pos >= Len(chars) /\ LastOr(chars, " ") # " ")
    /\ pos < Len(chars)
    /\ pos = 0

\* Whether the char is taken (0-based chars[i] is chars[i + 1] here).
CharAccepted(c, chars, pos) ==
    \/ c # " "
    \/ (pos >= Len(chars) /\ LastOr(chars, " ") # " ")
    \/ (pos < Len(chars) /\ chars[pos] # " " /\ chars[pos + 1] # " ")

Char ==
    /\ ~failed
    /\ Len(typed) < MaxTyped
    /\ \E c \in KeyChars :
          /\ call' = [op |-> "Char", c |-> c]
          /\ LET chars == typed
             IN  IF CharPanics(c, chars, cursor_pos) THEN KeyPanic
                 ELSE IF CharAccepted(c, chars, cursor_pos)
                 THEN IF cursor_pos >= Len(chars)
                      THEN /\ typed' = String_push(typed, c)
                           /\ cursor_pos' = cursor_pos + 1
                           /\ failed' = FALSE
                      ELSE IF \/ NthCharIdxPanics(typed, cursor_pos)
                              \/ StringInsertPanics(typed,
                                     nth_char_idx(typed, cursor_pos))
                      THEN KeyPanic
                      ELSE /\ typed' = String_insert(typed,
                                     nth_char_idx(typed, cursor_pos), c)
                           /\ cursor_pos' = cursor_pos + 1
                           /\ failed' = FALSE
                 ELSE UNCHANGED <<typed, cursor_pos, failed>>
    /\ UNCHANGED <<text, pixels, args, result>>

NextKeys == Backspace \/ Delete \/ Left \/ Right \/ Char

SpecKeys == InitKeys /\ [][NextKeys]_vars

\* C14: after any sequence of key events from typed = "" and cursor_pos = 0,
\* 0 <= cursor_pos <= number of chars of typed, and no event's processing
\* has failed.
C14_CursorInRange ==
    /\ ~failed
    /\ 0 <= cursor_pos
    /\ cursor_pos <= Len(typed)

=============================================================================
